---- MODULE Spec2Model ----
(***************************************************************************)
(* Model of the reviews-ratings API gateway: the request handlers          *)
(* (ReviewsHandler, both variants), the validators, and the two upstream   *)
(* source clients (AppStoreService, ASOMarketService).                     *)
(*                                                                         *)
(* Conventions                                                             *)
(*  - A JavaScript string is a sequence of one-character strings, except   *)
(*    that a timestamp is kept as one indivisible chunk (it contains no    *)
(*    "_" and is never cut).  Concatenation is \o, substring is SubSeq.    *)
(*  - A JavaScript number that a caller can supply is kept in tenths       *)
(*    (v = 25 is 2.5), so that Number.isInteger and Math.floor are         *)
(*    computed and not assumed.  A value is [t |-> tag, v |-> payload].    *)
(*  - One action is the code that runs between two awaits: the arrival of  *)
(*    a request runs the handler up to its first fetch; the arrival of an  *)
(*    upstream response runs the continuation up to the next fetch or up   *)
(*    to the response of the handler.                                      *)
(***************************************************************************)
EXTENDS Integers, Sequences, FiniteSets, TLC

(***************************************************************************)
(* Bounds of the model (not program constants).                            *)
(***************************************************************************)
\* getReviews called directly: number of review entries the feeds serve
\* during one call, and number of distinct entries they draw from
MaxEntries == 2
NumReviews == 5
\* a request through the handler: number of review entries the upstream
\* serves during one request, and number of distinct entries it holds
MaxServed == 2
StoreSize == 2
\* longest app_ids array of a batch request (besides the oversized one)
MaxApps == 3

(***************************************************************************)
(* Program constants.                                                      *)
(***************************************************************************)
\* validators.ts: isValidLimit upper bound
MAX_LIMIT == 200
\* validators.ts: most entries of app_ids
MAX_APP_IDS == 20
\* env.MAX_REVIEWS_PER_APP default of the route
MAX_REVIEWS_PER_APP == 200
\* app-store-service.ts: reviewContent.substring(0, 50)
PREFIX_LEN == 50
\* app-store-service.ts: data.feed.entry.slice(1, 50)
SLICE_END == 50

Min(a, b) == IF a <= b THEN a ELSE b
Max(a, b) == IF a >= b THEN a ELSE b

\* Array.prototype.slice(from, to) with 0-based, end-exclusive indices
Slice(arr, from, to) == SubSeq(arr, from + 1, Min(to, Len(arr)))

\* String.prototype.substring(0, n)
Substring(str, n) == SubSeq(str, 1, Min(n, Len(str)))

Range(f) == {f[i] : i \in DOMAIN f}

(***************************************************************************)
(* JavaScript values supplied by a caller.                                 *)
(***************************************************************************)
Undefined == [t |-> "undefined", v |-> 0]
NaN == [t |-> "nan", v |-> 0]
\* a number given in tenths
Num(tenths) == [t |-> "number", v |-> tenths]

\* truthiness of a number-or-undefined value (requestData.limit ? ... : ...)
Truthy(x) == x.t = "number" /\ x.v # 0

\* Number.isInteger
IsInteger(x) == x.t = "number" /\ x.v % 10 = 0

\* Math.floor, in units
Floor(x) == x.v \div 10

(***************************************************************************)
(* Validators (src/utils/validators.ts and its reduced variant).           *)
(* An error message is [msg, arg]: the fixed text and the interpolated     *)
(* value (empty when the text has none); errors.join(', ') keeps the       *)
(* messages in order, so the joined message is modelled by the sequence.   *)
(***************************************************************************)
Err(msg, arg) == [msg |-> msg, arg |-> arg]

Digits == {"0", "1", "2", "3", "4", "5", "6", "7", "8", "9"}

\* /^\d+$/.test(appId) && appId.length > 0
isValidAppId(appId) ==
    /\ \A i \in 1..Len(appId) : appId[i] \in Digits
    /\ Len(appId) > 0

\* Number.isInteger(limit) && limit > 0 && limit <= 200
isValidLimit(limit) ==
    /\ IsInteger(limit)
    /\ limit.v > 0
    /\ limit.v <= MAX_LIMIT * 10

\* the limit check of the full validators file; the reduced file has none
LimitErrors(validators, limit) ==
    IF validators = "full" /\ limit.t # "undefined" /\ ~isValidLimit(limit)
    THEN <<Err("limit must be a positive integer between 1 and 200", <<>>)>>
    ELSE <<>>

\* data.app_id is [t, v]: undefined, or a string v
validateReviewsRequest(validators, data) ==
    (IF data.app_id.t = "undefined" \/ Len(data.app_id.v) = 0
     THEN <<Err("app_id is required", <<>>)>>
     ELSE IF ~isValidAppId(data.app_id.v)
          THEN <<Err("app_id must be a valid numeric string", <<>>)>>
          ELSE <<>>)
    \o LimitErrors(validators, data.limit)

\* variant of AppIdErrors: the loop stops at the first invalid entry
RECURSIVE AppIdErrorsFirstOnly(_)
AppIdErrorsFirstOnly(app_ids) ==
    IF app_ids = <<>> THEN <<>>
    ELSE IF isValidAppId(Head(app_ids))
         THEN AppIdErrorsFirstOnly(Tail(app_ids))
         ELSE <<Err("Invalid app_id: ", Head(app_ids))>>

\* the loop `for (const appId of data.app_ids)`
RECURSIVE AppIdErrors(_)
AppIdErrors(app_ids) ==
    IF app_ids = <<>> THEN <<>>
    ELSE (IF isValidAppId(Head(app_ids))
          THEN <<>>
          ELSE <<Err("Invalid app_id: ", Head(app_ids))>>)
         \o AppIdErrors(Tail(app_ids))

\* data.app_ids is [t, v]: undefined (or not an array), or an array v
validateMultipleAppsRequest(data) ==
    (IF data.app_ids.t # "array"
     THEN <<Err("app_ids must be an array", <<>>)>>
     ELSE IF Len(data.app_ids.v) = 0
          THEN <<Err("app_ids array cannot be empty", <<>>)>>
          ELSE IF Len(data.app_ids.v) > MAX_APP_IDS
               THEN <<Err("app_ids array cannot contain more than 20 items", <<>>)>>
               ELSE AppIdErrors(data.app_ids.v))
    \o LimitErrors("full", data.limit)

\* String.prototype.trim
RECURSIVE TrimLeft(_)
TrimLeft(s) == IF s # <<>> /\ Head(s) = " " THEN TrimLeft(Tail(s)) ELSE s

RECURSIVE TrimRight(_)
TrimRight(s) ==
    IF s # <<>> /\ s[Len(s)] = " " THEN TrimRight(SubSeq(s, 1, Len(s) - 1)) ELSE s

sanitizeAppId(appId) == TrimRight(TrimLeft(appId))

\* Math.min(Math.max(1, Math.floor(limit)), maxLimit)
sanitizeLimit(limit, maxLimit) == Min(Max(1, Floor(limit)), maxLimit)

\* requestData.limit ? sanitizeLimit(requestData.limit, MAX) : MAX
EffectiveLimit(limit) ==
    IF Truthy(limit) THEN sanitizeLimit(limit, MAX_REVIEWS_PER_APP)
    ELSE MAX_REVIEWS_PER_APP

(***************************************************************************)
(* Upstream review entries.  An entry of the RSS feed carries              *)
(* content.label, author.name.label and updated.label; the other labels    *)
(* (im:rating, title, im:voteSum) are copied into the review unchanged     *)
(* and are left out.                                                       *)
(***************************************************************************)
\* two timestamps that parse, in increasing order, and the empty label
T1 == <<"2024-01-01T00:00:00Z">>
T2 == <<"2024-01-02T00:00:00Z">>
NoDate == <<>>

\* a content text longer than the fingerprint prefix, ending in `last`
LongContent(last) == [i \in 1..(PREFIX_LEN + 1) |-> IF i <= PREFIX_LEN THEN "a" ELSE last]

Entry(content, author, updated) ==
    [content |-> content, author |-> author, updated |-> updated]

\* the k-th entry the upstream can serve
PoolEntry(k) ==
    CASE k = 1 -> Entry(LongContent("x"), <<"c">>, T2)
      [] k = 2 -> Entry(<<"a", "_", "b">>, <<"c">>, T2)
      [] k = 3 -> Entry(<<"a">>, <<"c">>, T1)
      [] k = 4 -> Entry(LongContent("y"), <<"c">>, T2)
      [] k = 5 -> Entry(<<"a">>, <<"b", "_", "c">>, T2)
      [] k = 6 -> Entry(<<"a">>, <<"c">>, NoDate)
      [] OTHER -> Entry([i \in 1..k |-> "z"], <<"c">>, T1)

\* the first n entries
Pool(n) == {PoolEntry(k) : k \in 1..n}

\* the first entry of a feed: the app itself, not a review
AppEntry == Entry(<<>>, <<>>, <<>>)

BoundedSeqs(S, n) == UNION {[1..k -> S] : k \in 0..n}

\* new Date(label).getTime(): a number, or NaN when the label does not parse
DateGetTime(label) ==
    CASE label = T1 -> [t |-> "number", v |-> 1]
      [] label = T2 -> [t |-> "number", v |-> 2]
      [] OTHER -> NaN

(***************************************************************************)
(* AppStoreService.getReviews: the synchronous parts.                      *)
(***************************************************************************)
sortOptions == <<"mostRecent", "mostHelpful", "mostFavorable", "mostCritical">>

\* variant of uniqueId: the whole content instead of its first 50 characters
uniqueIdWholeContent(review) ==
    review.content \o <<"_">> \o review.author \o <<"_">> \o review.updated

\* `${reviewContent.substring(0, 50)}_${reviewAuthor}_${reviewDate}`
uniqueId(review) ==
    Substring(review.content, PREFIX_LEN) \o <<"_">> \o review.author
        \o <<"_">> \o review.updated

\* variant of AppStoreReviewId: the id is built without the counter
AppStoreReviewIdNoCounter(app, sortBy, n) ==
    [source |-> "appstore", app_id |-> app, sortBy |-> sortBy, n |-> 0]

\* `appstore_${appId}_${sortBy}_${allReviews.length}`: the parts of the
\* template, which IdString joins
AppStoreReviewId(app, sortBy, n) ==
    [source |-> "appstore", app_id |-> app, sortBy |-> sortBy, n |-> n]

AppStoreReview(app, sortBy, n, review) ==
    [id |-> AppStoreReviewId(app, sortBy, n),
     content |-> review.content,
     author |-> review.author,
     date |-> review.updated,
     app_id |-> app]

\* the loop `for (const review of reviews)`: acc is [all, ids]
RECURSIVE PushReviews(_, _, _, _)
PushReviews(reviews, app, sortBy, acc) ==
    IF reviews = <<>> THEN acc
    ELSE LET review == Head(reviews)
             next == IF uniqueId(review) \notin acc.ids
                     THEN [all |-> Append(acc.all,
                                     AppStoreReview(app, sortBy, Len(acc.all), review)),
                           ids |-> acc.ids \cup {uniqueId(review)}]
                     ELSE acc
         IN PushReviews(Tail(reviews), app, sortBy, next)

\* the reviews one feed response contributes: none unless the request
\* succeeded with an entry array, else entry.slice(1, 50)
FeedReviews(outcome) ==
    IF outcome.kind = "feed" THEN Slice(outcome.entry, 1, SLICE_END) ELSE <<>>

\* the sign of new Date(b.date).getTime() - new Date(a.date).getTime(),
\* with NaN read as +0 as Array.prototype.sort does
compareFn(a, b) ==
    LET ta == DateGetTime(a.date)
        tb == DateGetTime(b.date)
    IN IF ta.t = "nan" \/ tb.t = "nan" THEN 0
       ELSE IF tb.v > ta.v THEN 1
       ELSE IF tb.v < ta.v THEN -1
       ELSE 0

\* ECMAScript: compareFn is a consistent comparator for the elements
ConsistentComparator(S) ==
    /\ \A a, b \in S : compareFn(a, b) = 0 => compareFn(b, a) = 0
    /\ \A a, b, c \in S :
         /\ compareFn(a, b) = 0 /\ compareFn(b, c) = 0 => compareFn(a, c) = 0
         /\ compareFn(a, b) < 0 /\ compareFn(b, c) < 0 => compareFn(a, c) < 0
         /\ compareFn(a, b) > 0 /\ compareFn(b, c) > 0 => compareFn(a, c) > 0

\* variant of InsertSorted: an unstable sort, equal elements change places
RECURSIVE InsertSortedUnstable(_, _)
InsertSortedUnstable(x, sorted) ==
    IF sorted = <<>> THEN <<x>>
    ELSE IF compareFn(Head(sorted), x) < 0
         THEN <<Head(sorted)>> \o InsertSortedUnstable(x, Tail(sorted))
         ELSE <<x>> \o sorted

\* insertion into a sorted array, after the elements that do not sort later
RECURSIVE InsertSorted(_, _)
InsertSorted(x, sorted) ==
    IF sorted = <<>> THEN <<x>>
    ELSE IF compareFn(Head(sorted), x) <= 0
         THEN <<Head(sorted)>> \o InsertSorted(x, Tail(sorted))
         ELSE <<x>> \o sorted

\* the stable sort of Array.prototype.sort for a consistent comparator
RECURSIVE StableSort(_)
StableSort(arr) ==
    IF arr = <<>> THEN <<>>
    ELSE InsertSorted(arr[Len(arr)], StableSort(SubSeq(arr, 1, Len(arr) - 1)))

Reorderings(arr) ==
    {[i \in DOMAIN arr |-> arr[p[i]]] :
        p \in {q \in [DOMAIN arr -> DOMAIN arr] : Range(q) = DOMAIN arr}}

\* the arrays allReviews.sort(compareFn) can produce: the stable order, or
\* an implementation-defined order when the comparator is inconsistent
SortResults(arr) ==
    IF ConsistentComparator(Range(arr)) THEN {StableSort(arr)}
    ELSE Reorderings(arr)

\* variant of Truncate: the slice keeps one element too many
TruncateOneMore(arr, limit) == Slice(arr, 0, limit + 1)

\* .slice(0, limit)
Truncate(arr, limit) == Slice(arr, 0, limit)

\* variant of NextIndex: a failed request leaves the loop (`break`)
NextIndexBreak(outcome, i) ==
    IF outcome.kind = "feed" THEN i + 1 ELSE Len(sortOptions) + 1

\* the position of the loop over sortOptions after the response of
\* position i: every path of the body, `continue` included, goes on
NextIndex(outcome, i) == i + 1

(***************************************************************************)
(* ASOMarketService.getReviews: the synchronous part.                      *)
(***************************************************************************)
\* the string written where the upstream gives no date: new Date().toISOString()
Now == <<"now">>

\* the decimal digits of a natural number
RECURSIVE Decimal(_)
Decimal(n) ==
    LET d == <<"0", "1", "2", "3", "4", "5", "6", "7", "8", "9">>[(n % 10) + 1]
    IN IF n < 10 THEN <<d>> ELSE Append(Decimal(n \div 10), d)

\* the id string the template literal of either client evaluates to; the
\* literal parts and the sort order name are kept as one chunk each
IdString(id) ==
    <<id.source, "_">> \o id.app_id \o <<"_">>
        \o (IF id.source = "appstore" THEN <<id.sortBy, "_">> ELSE <<>>)
        \o Decimal(id.n)

\* `asomarket_${appId}_${index}`
ASOReviewId(app, index) ==
    [source |-> "asomarket", app_id |-> app, sortBy |-> "", n |-> index]

\* data.reviews.map((review, index) => ...), index counted from 0
ASOFormatReviews(reviews, app) ==
    [i \in DOMAIN reviews |->
        [id |-> ASOReviewId(app, i - 1),
         content |-> reviews[i].content,
         author |-> IF reviews[i].author = <<>>
                    THEN <<"A", "n", "o", "n", "y", "m", "o", "u", "s">>
                    ELSE reviews[i].author,
         date |-> IF reviews[i].updated = <<>> THEN Now ELSE reviews[i].updated,
         app_id |-> app]]

\* variant of ReviewsFailure: the error is thrown on, as getAppMetadata does
ReviewsFailureRethrown(outcome) == [rejected |-> TRUE, reviews |-> <<>>]

\* what getReviews settles with when the upstream gives no review list:
\* the early `return []` and the `return []` of the catch block
ReviewsFailure(outcome) == [rejected |-> FALSE, reviews |-> <<>>]

\* what ASOMarketService.getReviews settles with
ASOGetReviews(outcome, app) ==
    IF outcome.kind = "reviews"
    THEN [rejected |-> FALSE, reviews |-> ASOFormatReviews(outcome.reviews, app)]
    ELSE ReviewsFailure(outcome)

\* the methods class ASOMarketService defines
ASOMarketServiceMethods == {"getAppMetadata", "getReviews", "getAppWithReviews"}

(***************************************************************************)
(* Requests a caller can send.                                             *)
(***************************************************************************)
Null == [t |-> "null", v |-> <<>>]
Str(chars) == [t |-> "string", v |-> chars]
UndefinedStr == [t |-> "undefined", v |-> <<>>]

AppIdStrings == {<<"1", "2">>, <<"1", "a">>, <<" ", "1">>}

\* query strings of GET /reviews
QueryLimits == {Null, Str(<<"1">>), Str(<<"a">>)}
Queries ==
    [app_id : {Null} \cup {Str(a) : a \in AppIdStrings},
     limit : QueryLimits,
     include_metadata : {Null, Str(<<"f", "a", "l", "s", "e">>)}]

\* bodies of POST /reviews
BodyLimits == {Undefined, Num(0), Num(10), Num(25), Num(2010)}
SingleBodies ==
    {[t |-> "unparsable"], [t |-> "null"]} \cup
    [t : {"object"},
     app_id : {UndefinedStr, Str(<<>>)} \cup {Str(a) : a \in AppIdStrings},
     limit : BodyLimits,
     include_metadata : {"undefined", "true"}]

\* bodies of POST /reviews/multiple
TooManyApps == [i \in 1..(MAX_APP_IDS + 1) |-> <<"1", "2">>]
AppIdArrays ==
    {[t |-> "undefined", v |-> <<>>], [t |-> "array", v |-> TooManyApps]} \cup
    {[t |-> "array", v |-> a] : a \in BoundedSeqs(AppIdStrings \cup {<<"3">>}, MaxApps)}
MultipleBodies ==
    {[t |-> "unparsable"], [t |-> "null"]} \cup
    [t : {"object"},
     app_ids : AppIdArrays,
     limit : {Undefined, Num(10), Num(2010)},
     include_metadata : {"undefined", "true"}]

DigitValue(c) ==
    CASE c = "0" -> 0 [] c = "1" -> 1 [] c = "2" -> 2 [] c = "3" -> 3
      [] c = "4" -> 4 [] c = "5" -> 5 [] c = "6" -> 6 [] c = "7" -> 7
      [] c = "8" -> 8 [] c = "9" -> 9

\* the value of the leading digits of a string, -1 when it has none
RECURSIVE LeadingDigits(_, _)
LeadingDigits(chars, acc) ==
    IF chars = <<>> \/ Head(chars) \notin Digits THEN acc
    ELSE LeadingDigits(Tail(chars),
                       (IF acc < 0 THEN 0 ELSE acc * 10) + DigitValue(Head(chars)))

\* parseInt(string)
ParseInt(chars) ==
    IF LeadingDigits(chars, -1) < 0 THEN NaN
    ELSE Num(LeadingDigits(chars, -1) * 10)

\* the ReviewsRequest handleSingleAppReviews builds from the query string
QueryRequestData(q) ==
    [app_id |-> IF q.app_id.t = "null" \/ q.app_id.v = <<>> THEN Str(<<>>) ELSE q.app_id,
     limit |-> IF q.limit.t = "null" \/ q.limit.v = <<>> THEN Undefined
               ELSE ParseInt(q.limit.v),
     include_metadata |-> ~(q.include_metadata.t = "string"
                            /\ q.include_metadata.v = <<"f", "a", "l", "s", "e">>)]

\* the ReviewsRequest a parsed JSON object body is read as
BodyRequestData(b) ==
    [app_id |-> b.app_id,
     limit |-> b.limit,
     include_metadata |-> b.include_metadata = "true"]

(***************************************************************************)
(* State.                                                                  *)
(***************************************************************************)
VARIABLES
    build,       \* the deployed files: [handler, validators]
    req,         \* the request received: [route, input]
    resp,        \* the responses sent to the caller, in order
    appId,       \* the sanitized app id passed to the source client
    limit,       \* the limit passed to the source client
    awaiting,    \* the call processSingleAppRequest is suspended on
    metaState,   \* getAppMetadata: "idle", "pending", "ok", "failed"
    revState,    \* getReviews: "idle", "fetching", "done"
    sortIdx,     \* position of the loop over sortOptions, from 1
    allReviews,  \* AppStoreService.getReviews: allReviews
    reviewIds,   \* AppStoreService.getReviews: reviewIds
    revResult,   \* the array getReviews returned
    got,         \* per upstream review request: what came back
    issued,      \* per upstream request: how many times it was sent
    inflight,    \* the upstream requests awaiting their response
    store,       \* upstream: the review entries it holds for the app
    quota        \* upstream: how many entries it serves at most

vars == <<build, req, resp, appId, limit, awaiting, metaState, revState,
          sortIdx, allReviews, reviewIds, revResult, got, issued, inflight,
          store, quota>>

serviceVars == <<appId, limit, awaiting, metaState, revState, sortIdx,
                 allReviews, reviewIds, revResult, got, issued, inflight>>

ReviewRequests == Range(sortOptions) \cup {"asoReviews"}
UpstreamRequests == ReviewRequests \cup {"metadata"}

\* the handler file with the validators file it is deployed with: the
\* ASO handler needs validateMultipleAppsRequest, which only the full
\* validators file has
Builds ==
    {[handler |-> "aso", validators |-> "full"],
     [handler |-> "appstore", validators |-> "full"],
     [handler |-> "appstore", validators |-> "reduced"]}

NoRequest == [route |-> "none", input |-> <<>>]
NotYet == [status |-> "none", reviews |-> <<>>]

\* no request received, no call of a source client made
Idle ==
    /\ req = NoRequest
    /\ resp = <<>>
    /\ appId = <<>>
    /\ limit = 0
    /\ awaiting = "none"
    /\ metaState = "idle"
    /\ revState = "idle"
    /\ sortIdx = 0
    /\ allReviews = <<>>
    /\ reviewIds = {}
    /\ revResult = <<>>
    /\ got = [r \in ReviewRequests |-> NotYet]
    /\ issued = [r \in UpstreamRequests |-> 0]
    /\ inflight = {}

Init ==
    /\ build \in Builds
    /\ store = Pool(StoreSize)
    /\ quota = MaxServed
    /\ Idle

(***************************************************************************)
(* Responses.                                                              *)
(***************************************************************************)
\* A response is the status, the fields of the JSON body the properties
\* read, and cors: whether the header Access-Control-Allow-Origin: * is
\* set.  NextResponse.json(body, init) sets no header but content-type
\* unless init.headers gives it.

\* NextResponse.json(ReviewsResponse): status 200
ReviewsResponse(app, hasMetadata, reviews) ==
    [status |-> 200, error |-> "", message |-> <<>>, app_id |-> app,
     has_metadata |-> hasMetadata, reviews |-> reviews,
     total_reviews |-> Len(reviews), cors |-> FALSE]

\* NextResponse.json(ErrorResponse, { status })
ErrorResponse(status, error, message, app) ==
    [status |-> status, error |-> error, message |-> message, app_id |-> app,
     has_metadata |-> FALSE, reviews |-> <<>>, total_reviews |-> 0,
     cors |-> FALSE]

\* a response of a route file: new NextResponse(null, init) or
\* NextResponse.json(body, init)
RouteResponse(status, error, cors) ==
    [status |-> status, error |-> error, message |-> <<>>, app_id |-> <<>>,
     has_metadata |-> FALSE, reviews |-> <<>>, total_reviews |-> 0,
     cors |-> cors]

\* ErrorHandler.handleError for an Error instance, answered with status 500
handleError(errorMessage, app) ==
    ErrorResponse(500, "Internal Server Error", <<Err(errorMessage, <<>>)>>, app)

\* the first request of the getReviews of the deployed source client
FirstReviewRequest == IF build.handler = "appstore" THEN sortOptions[1] ELSE "asoReviews"

\* the wrapped error getAppWithReviews throws
CombinedErrorMessage ==
    IF build.handler = "appstore" THEN "Failed to get app with reviews"
    ELSE "Failed to get app with reviews from ASO Market"

(***************************************************************************)
(* ReviewsHandler: a request arrives.                                      *)
(***************************************************************************)
\* variant of RequestsStarted: the source client is called before the
\* validation result is looked at
RequestsStartedEagerly(errors, includeMetadata) ==
    (IF includeMetadata THEN {"metadata"} ELSE {}) \cup {FirstReviewRequest}

\* variant of RequestsStarted: getAppWithReviews awaits getAppMetadata
\* before it calls getReviews
RequestsStartedMetadataFirst(errors, includeMetadata) ==
    IF errors # <<>> THEN {}
    ELSE IF includeMetadata THEN {"metadata"} ELSE {FirstReviewRequest}

\* the upstream requests processSingleAppRequest sends before its first
\* await: none when validation fails (it returns 400 first); else the
\* metadata lookup when include_metadata is set (getAppWithReviews calls
\* getAppMetadata, then getReviews) and the first review request
RequestsStarted(errors, includeMetadata) ==
    IF errors # <<>> THEN {}
    ELSE (IF includeMetadata THEN {"metadata"} ELSE {}) \cup {FirstReviewRequest}

Send(requests) ==
    /\ issued' = [r \in UpstreamRequests |->
                     IF r \in requests THEN issued[r] + 1 ELSE issued[r]]
    /\ inflight' = inflight \cup requests

\* processSingleAppRequest, up to the await of the source client
processSingleAppRequest(data) ==
    LET errors == validateReviewsRequest(build.validators, data)
    IN /\ Send(RequestsStarted(errors, data.include_metadata))
       /\ IF errors # <<>>
          THEN /\ resp' = Append(resp, ErrorResponse(400, "Validation Error",
                                                     errors, data.app_id.v))
               /\ UNCHANGED <<appId, limit, awaiting, metaState, revState, sortIdx>>
          ELSE /\ appId' = sanitizeAppId(data.app_id.v)
               /\ limit' = EffectiveLimit(data.limit)
               /\ awaiting' = IF data.include_metadata THEN "getAppWithReviews"
                               ELSE "getReviews"
               /\ metaState' = IF data.include_metadata THEN "pending" ELSE "idle"
               /\ revState' = "fetching"
               /\ sortIdx' = IF build.handler = "appstore" THEN 1 ELSE 0
               /\ resp' = resp
       /\ UNCHANGED <<allReviews, reviewIds, revResult, got>>

\* GET /reviews
handleSingleAppReviews ==
    /\ req = NoRequest
    /\ \E q \in Queries :
         /\ req' = [route |-> "GET /reviews", input |-> q]
         /\ processSingleAppRequest(QueryRequestData(q))
    /\ UNCHANGED <<build, store, quota>>

\* POST /reviews: request.json() rejects for an unparsable body, and
\* validateReviewsRequest reads data.app_id, which throws for null; both
\* land in the catch of the handler
handleSingleAppReviewsPost ==
    /\ req = NoRequest
    /\ \E b \in SingleBodies :
         /\ req' = [route |-> "POST /reviews", input |-> b]
         /\ IF b.t = "object"
            THEN processSingleAppRequest(BodyRequestData(b))
            ELSE /\ resp' = Append(resp, handleError(
                                 IF b.t = "unparsable"
                                 THEN "Unexpected token in JSON"
                                 ELSE "Cannot read properties of null", <<>>))
                 /\ UNCHANGED serviceVars
    /\ UNCHANGED <<build, store, quota>>

\* POST /reviews/multiple (ASO handler): processMultipleAppsRequest.
\* After validation it calls this.asoMarketService.getMultipleAppsReviews,
\* which class ASOMarketService does not define: the call throws a
\* TypeError inside the try, and the catch answers 500.
handleMultipleAppsReviews ==
    /\ req = NoRequest
    /\ build.handler = "aso"
    /\ \E b \in MultipleBodies :
         /\ req' = [route |-> "POST /reviews/multiple", input |-> b]
         /\ IF b.t # "object"
            THEN resp' = Append(resp, handleError(
                                 IF b.t = "unparsable"
                                 THEN "Unexpected token in JSON"
                                 ELSE "Cannot read properties of null", <<>>))
            ELSE LET errors == validateMultipleAppsRequest(b)
                 IN IF errors # <<>>
                    THEN resp' = Append(resp, ErrorResponse(400, "Validation Error",
                                                            errors, <<>>))
                    ELSE /\ "getMultipleAppsReviews" \notin ASOMarketServiceMethods
                         /\ resp' = Append(resp, handleError(
                               "getMultipleAppsReviews is not a function", <<>>))
    /\ UNCHANGED serviceVars
    /\ UNCHANGED <<build, store, quota>>

(***************************************************************************)
(* The route files: health, API documentation, OPTIONS.                    *)
(***************************************************************************)
\* GET /health
healthGET ==
    /\ req = NoRequest
    /\ req' = [route |-> "GET /health", input |-> <<>>]
    /\ resp' = Append(resp, RouteResponse(200, "", FALSE))
    /\ UNCHANGED serviceVars
    /\ UNCHANGED <<build, store, quota>>

\* GET of the documentation route: swagger.json is read and parsed; the
\* catch answers 500 when that throws
docsGET ==
    /\ req = NoRequest
    /\ req' = [route |-> "GET /docs", input |-> <<>>]
    /\ \E readable \in BOOLEAN :
         resp' = Append(resp,
                   IF readable THEN RouteResponse(200, "", TRUE)
                   ELSE RouteResponse(500, "Failed to load API documentation", FALSE))
    /\ UNCHANGED serviceVars
    /\ UNCHANGED <<build, store, quota>>

\* the routes whose file exports OPTIONS
OptionsRoutes == {"/health", "/reviews/multiple", "/docs"}

\* OPTIONS
OPTIONS ==
    /\ req = NoRequest
    /\ \E route \in OptionsRoutes :
         req' = [route |-> "OPTIONS", input |-> route]
    /\ resp' = Append(resp, RouteResponse(200, "", TRUE))
    /\ UNCHANGED serviceVars
    /\ UNCHANGED <<build, store, quota>>

(***************************************************************************)
(* Upstream responses.                                                     *)
(***************************************************************************)
\* how an upstream request can end without data: fetch rejects (network
\* error, or the timeout of AbortSignal.timeout), response.ok is false,
\* response.json() rejects, or the payload has not the expected array
Failures == {"neterr", "status", "badjson", "shape"}

RECURSIVE EntriesServedBy(_)
EntriesServedBy(requests) ==
    IF requests = {} THEN 0
    ELSE LET r == CHOOSE x \in requests : TRUE
         IN Len(got[r].reviews) + EntriesServedBy(requests \ {r})

\* the review entries the upstream may still serve
EntriesLeft == quota - EntriesServedBy(ReviewRequests)

\* the responses to one sort-order request of the RSS feed
FeedOutcomes ==
    {[kind |-> f, entry |-> <<>>] : f \in Failures} \cup
    {[kind |-> "feed", entry |-> e] :
        e \in {<<>>} \cup {<<AppEntry>> \o r : r \in BoundedSeqs(store, EntriesLeft)}}

\* the responses to the review request of the ASO Market API
ASOOutcomes ==
    {[kind |-> f, reviews |-> <<>>] : f \in Failures} \cup
    {[kind |-> "reviews", reviews |-> r] : r \in BoundedSeqs(store, EntriesLeft)}

\* the responses to a metadata lookup; "empty" is a payload without results
MetadataOutcomes == Failures \cup {"empty", "ok"}

\* getAppMetadata resolves: the iTunes client throws on an empty result set
\* or a payload without results, the ASO client fills in defaults
MetadataSucceeds(handler, outcome) ==
    \/ outcome = "ok"
    \/ handler = "aso" /\ outcome \in {"empty", "shape"}

\* the message of the error the handler reports when getReviews rejects
ReviewsErrorMessage(viaCombined) ==
    IF viaCombined THEN CombinedErrorMessage ELSE "Failed to get reviews"

\* variant of ReviewsSettled: the result of getReviews is answered also
\* after the handler has returned
ReviewsSettledAnswersAgain(result) ==
    /\ resp' = Append(resp,
                  IF result.rejected
                  THEN handleError(ReviewsErrorMessage(awaiting # "getReviews"), appId)
                  ELSE ReviewsResponse(appId, awaiting # "getReviews", result.reviews))
    /\ awaiting' = "returned"

\* the promise of getReviews has settled: processSingleAppRequest answers
\* when it awaited getReviews alone, when Promise.all has both results, or
\* when Promise.all rejects
ReviewsSettled(result) ==
    IF awaiting = "getReviews"
    THEN /\ resp' = Append(resp,
                      IF result.rejected
                      THEN handleError(ReviewsErrorMessage(FALSE), appId)
                      ELSE ReviewsResponse(appId, FALSE, result.reviews))
         /\ awaiting' = "returned"
    ELSE IF awaiting = "getAppWithReviews" /\ result.rejected
         THEN /\ resp' = Append(resp, handleError(ReviewsErrorMessage(TRUE), appId))
              /\ awaiting' = "returned"
         ELSE IF awaiting = "getAppWithReviews" /\ metaState = "ok"
              THEN /\ resp' = Append(resp, ReviewsResponse(appId, TRUE, result.reviews))
                   /\ awaiting' = "returned"
              ELSE UNCHANGED <<resp, awaiting>>

\* the response to the metadata lookup arrives
MetadataResponse ==
    /\ "metadata" \in inflight
    /\ \E outcome \in MetadataOutcomes :
         /\ metaState' = IF MetadataSucceeds(build.handler, outcome) THEN "ok"
                          ELSE "failed"
         /\ IF awaiting # "getAppWithReviews"
            THEN UNCHANGED <<resp, awaiting>>
            ELSE IF ~MetadataSucceeds(build.handler, outcome)
            THEN \* Promise.all rejects; the catch of the handler answers
                 /\ resp' = Append(resp, handleError(CombinedErrorMessage, appId))
                 /\ awaiting' = "returned"
            ELSE IF revState = "done"
                 THEN /\ resp' = Append(resp, ReviewsResponse(appId, TRUE, revResult))
                      /\ awaiting' = "returned"
                 ELSE UNCHANGED <<resp, awaiting>>
    /\ inflight' = inflight \ {"metadata"}
    /\ UNCHANGED <<build, req, appId, limit, revState, sortIdx, allReviews,
                   reviewIds, revResult, got, issued, store, quota>>

\* AppStoreService.getReviews: the response to the request of
\* sortOptions[sortIdx] arrives; the loop body runs and either sends the
\* next request or sorts, truncates and returns
FeedResponse ==
    /\ build.handler = "appstore"
    /\ revState = "fetching"
    /\ sortOptions[sortIdx] \in inflight
    /\ \E outcome \in FeedOutcomes :
         LET sortBy == sortOptions[sortIdx]
             acc == PushReviews(FeedReviews(outcome), appId, sortBy,
                                [all |-> allReviews, ids |-> reviewIds])
         IN /\ reviewIds' = acc.ids
            /\ got' = [got EXCEPT ![sortBy] =
                          [status |-> IF outcome.kind = "feed" THEN "ok" ELSE "failed",
                           reviews |-> FeedReviews(outcome)]]
            /\ sortIdx' = NextIndex(outcome, sortIdx)
            /\ IF NextIndex(outcome, sortIdx) <= Len(sortOptions)
               THEN /\ allReviews' = acc.all
                    /\ issued' = [issued EXCEPT
                                    ![sortOptions[NextIndex(outcome, sortIdx)]] = @ + 1]
                    /\ inflight' = (inflight \ {sortBy})
                                      \cup {sortOptions[NextIndex(outcome, sortIdx)]}
                    /\ UNCHANGED <<revState, revResult, resp, awaiting>>
               ELSE /\ \E sorted \in SortResults(acc.all) :
                         /\ allReviews' = sorted
                         /\ revResult' = Truncate(sorted, limit)
                         /\ ReviewsSettled([rejected |-> FALSE,
                                            reviews |-> Truncate(sorted, limit)])
                    /\ revState' = "done"
                    /\ inflight' = inflight \ {sortBy}
                    /\ issued' = issued
    /\ UNCHANGED <<build, req, appId, limit, metaState, store, quota>>

\* ASOMarketService.getReviews: the response to its one request arrives
ASOReviewsResponse ==
    /\ build.handler = "aso"
    /\ "asoReviews" \in inflight
    /\ \E outcome \in ASOOutcomes :
         /\ got' = [got EXCEPT !["asoReviews"] =
                       [status |-> IF outcome.kind = "reviews" THEN "ok" ELSE "failed",
                        reviews |-> outcome.reviews]]
         /\ revResult' = ASOGetReviews(outcome, appId).reviews
         /\ ReviewsSettled(ASOGetReviews(outcome, appId))
    /\ revState' = "done"
    /\ inflight' = inflight \ {"asoReviews"}
    /\ UNCHANGED <<build, req, appId, limit, metaState, sortIdx, allReviews,
                   reviewIds, issued, store, quota>>

Next ==
    \/ handleSingleAppReviews
    \/ handleSingleAppReviewsPost
    \/ handleMultipleAppsReviews
    \/ healthGET
    \/ docsGET
    \/ OPTIONS
    \/ MetadataResponse
    \/ FeedResponse
    \/ ASOReviewsResponse

Spec == Init /\ [][Next]_vars

\* Every fetch carries AbortSignal.timeout(REQUEST_TIMEOUT_MS): a request
\* in flight gets its response, or fails, in the end.  What the reviews
\* say makes no difference to whether a request is answered: the
\* upstream holds one review here.
InitFair ==
    /\ build \in Builds
    /\ store = Pool(1)
    /\ quota = MaxServed
    /\ Idle

FairSpec ==
    /\ InitFair
    /\ [][Next]_vars
    /\ WF_vars(MetadataResponse)
    /\ WF_vars(FeedResponse)
    /\ WF_vars(ASOReviewsResponse)

(***************************************************************************)
(* AppStoreService.getReviews called on its own, with the limit drawn from *)
(* the limits a caller can pass and a larger upstream.                     *)
(***************************************************************************)
CallLimits == {1, 2, MAX_REVIEWS_PER_APP}

\* getReviews(appId, limit, country), up to its first await
getReviews ==
    /\ req = NoRequest
    /\ revState = "idle"
    /\ \E l \in CallLimits : limit' = l
    /\ appId' = <<"1", "2">>
    /\ revState' = "fetching"
    /\ sortIdx' = 1
    /\ Send({sortOptions[1]})
    /\ UNCHANGED <<build, req, resp, awaiting, metaState, allReviews, reviewIds,
                   revResult, got, store, quota>>

InitGetReviews ==
    /\ build = [handler |-> "appstore", validators |-> "full"]
    /\ store = Pool(NumReviews)
    /\ quota = MaxEntries
    /\ Idle

NextGetReviews ==
    \/ getReviews
    \/ FeedResponse

SpecGetReviews == InitGetReviews /\ [][NextGetReviews]_vars

(***************************************************************************)
(* Properties of AppStoreService.getReviews.                               *)
(***************************************************************************)
AppStoreDone == build.handler = "appstore" /\ revState = "done"

\* the fingerprint of a review: first 50 characters of the content, author
\* name, update timestamp
Fingerprint(r) == <<Substring(r.content, PREFIX_LEN), r.author, r.date>>

\* C1: when getReviews of the App Store client has returned for a limit
\* L >= 1, the returned list has min(L, D) elements, D being the number of
\* reviews kept after deduplication.
C1_CapLength ==
    AppStoreDone =>
        /\ limit >= 1
        /\ Len(allReviews) = Cardinality(reviewIds)
        /\ Len(revResult) = Min(limit, Cardinality(reviewIds))
        /\ Len(revResult) <= limit

\* the cap bites: more reviews were kept than asked for
C1_Witness ==
    /\ AppStoreDone
    /\ Cardinality(reviewIds) > limit
    /\ Len(revResult) = limit

\* C2: no two reviews of the list getReviews returns (nor of the reviews
\* it keeps) have the same fingerprint.
C2_NoDuplicateFingerprint ==
    build.handler = "appstore" =>
        /\ \A i, j \in DOMAIN allReviews :
              i # j => Fingerprint(allReviews[i]) # Fingerprint(allReviews[j])
        /\ \A i, j \in DOMAIN revResult :
              i # j => Fingerprint(revResult[i]) # Fingerprint(revResult[j])

\* two feeds served entries with one fingerprint but different contents,
\* and the returned list has one review with it
C2_Witness ==
    /\ AppStoreDone
    /\ \E s1, s2 \in Range(sortOptions) :
         /\ s1 # s2
         /\ \E e1 \in Range(got[s1].reviews), e2 \in Range(got[s2].reviews) :
              /\ e1 # e2
              /\ Substring(e1.content, PREFIX_LEN) = Substring(e2.content, PREFIX_LEN)
              /\ e1.author = e2.author /\ e1.updated = e2.updated
              /\ Cardinality({i \in DOMAIN revResult :
                      Fingerprint(revResult[i]) =
                        <<Substring(e1.content, PREFIX_LEN), e1.author, e1.updated>>}) = 1

\* position of a feed in sortOptions
FeedIndex(sortBy) == CHOOSE i \in DOMAIN sortOptions : sortOptions[i] = sortBy

\* first position, in the entries its feed served, of the entry a review
\* was built from
PositionInFeed(r) ==
    LET served == got[r.id.sortBy].reviews
    IN CHOOSE i \in DOMAIN served :
          /\ served[i] = Entry(r.content, r.author, r.date)
          /\ \A j \in 1..(i - 1) : served[j] # served[i]

\* r1 was inserted before r2: earlier feed, or same feed and earlier entry
InsertedBefore(r1, r2) ==
    \/ FeedIndex(r1.id.sortBy) < FeedIndex(r2.id.sortBy)
    \/ /\ r1.id.sortBy = r2.id.sortBy
       /\ PositionInFeed(r1) < PositionInFeed(r2)

AllTimestampsParse ==
    \A s \in Range(sortOptions) : \A i \in DOMAIN got[s].reviews :
        DateGetTime(got[s].reviews[i].updated).t = "number"

\* C3: when all timestamps of the feeds parse, the returned list is in
\* descending order of the timestamps, and reviews of equal timestamp are
\* in insertion order: feed order, then position in the feed.  The order
\* is total on the kept reviews, so the output order is determined.
C3_SortedStable ==
    (AppStoreDone /\ AllTimestampsParse) =>
        \A i, j \in DOMAIN revResult :
            i < j =>
              \/ DateGetTime(revResult[i].date).v > DateGetTime(revResult[j].date).v
              \/ /\ DateGetTime(revResult[i].date).v = DateGetTime(revResult[j].date).v
                 /\ InsertedBefore(revResult[i], revResult[j])
                 /\ revResult[i].id.n < revResult[j].id.n

\* the returned list starts with two reviews of one timestamp that came
\* from different feeds
C3_Witness ==
    /\ AppStoreDone
    /\ AllTimestampsParse
    /\ Len(revResult) >= 2
    /\ revResult[1].date = revResult[2].date
    /\ revResult[1].id.sortBy # revResult[2].id.sortBy

\* the entries of the feeds that succeeded, in the order of sortOptions
RECURSIVE ServedFrom(_)
ServedFrom(i) ==
    IF i > Len(sortOptions) THEN <<>>
    ELSE (IF got[sortOptions[i]].status = "ok" THEN got[sortOptions[i]].reviews
          ELSE <<>>) \o ServedFrom(i + 1)

\* the entries of a sequence without the later entries of an equal key
RECURSIVE FirstOfEachKey(_, _)
FirstOfEachKey(entries, seen) ==
    IF entries = <<>> THEN <<>>
    ELSE IF uniqueId(Head(entries)) \in seen
         THEN FirstOfEachKey(Tail(entries), seen)
         ELSE <<Head(entries)>>
              \o FirstOfEachKey(Tail(entries), seen \cup {uniqueId(Head(entries))})

\* the fields of a review that come from the upstream entry
Fields(content, author, date) == [content |-> content, author |-> author, date |-> date]

\* the entries of the feeds that succeeded, deduplicated, as reviews
ExpectedKept ==
    LET kept == FirstOfEachKey(ServedFrom(1), {})
    IN [i \in DOMAIN kept |-> Fields(kept[i].content, kept[i].author, kept[i].updated)]

\* C4: each sort-order feed is requested at most once, and exactly once by
\* the time getReviews returns, whatever the other feeds did; a failed feed
\* contributes no review; the returned list is the deduplicated, sorted and
\* capped union of the entries of the feeds that succeeded.
C4_EachFeedOnce ==
    build.handler = "appstore" =>
        /\ \A s \in Range(sortOptions) : issued[s] <= 1
        /\ revState = "done" =>
              /\ \A s \in Range(sortOptions) :
                    /\ issued[s] = 1
                    /\ got[s].status \in {"ok", "failed"}
                    /\ got[s].status = "failed" =>
                          \A i \in DOMAIN allReviews : allReviews[i].id.sortBy # s
              /\ \E sorted \in SortResults(ExpectedKept) :
                    [i \in DOMAIN revResult |->
                        Fields(revResult[i].content, revResult[i].author,
                               revResult[i].date)] = Slice(sorted, 0, limit)

\* a feed failed, an earlier and a later feed succeeded with reviews, and
\* both are in the returned list
C4_Witness ==
    /\ AppStoreDone
    /\ \E i, j, k \in DOMAIN sortOptions :
         /\ i < j /\ j < k
         /\ got[sortOptions[i]].status = "ok"
         /\ got[sortOptions[j]].status = "failed"
         /\ got[sortOptions[k]].status = "ok"
         /\ \E a, b \in DOMAIN revResult :
              /\ revResult[a].id.sortBy = sortOptions[i]
              /\ revResult[b].id.sortBy = sortOptions[k]

(***************************************************************************)
(* Properties of the request handlers.                                     *)
(***************************************************************************)
SingleRequest == req.route \in {"GET /reviews", "POST /reviews"}
BatchRequest == req.route = "POST /reviews/multiple"

\* the ReviewsRequest of the single-app request received
ReceivedData ==
    IF req.route = "GET /reviews" THEN QueryRequestData(req.input)
    ELSE BodyRequestData(req.input)

\* the single-app request received passed validateReviewsRequest
PassedValidation ==
    /\ SingleRequest
    /\ req.route = "POST /reviews" => req.input.t = "object"
    /\ validateReviewsRequest(build.validators, ReceivedData) = <<>>

Responded == resp # <<>>

\* every review request that was sent has failed
AllReviewRequestsFailed ==
    /\ \E r \in ReviewRequests : issued[r] > 0
    /\ \A r \in ReviewRequests : issued[r] > 0 => got[r].status = "failed"

\* C5: a validated single-app request without metadata is never answered
\* with a failure, whatever the upstream does: once getReviews is done the
\* one response is 200 with the list it returned, and the list is empty
\* with total_reviews 0 when every upstream request failed.
C5_ReviewErrorsAbsorbed ==
    (PassedValidation /\ ~ReceivedData.include_metadata) =>
        /\ Responded => /\ resp[1].status = 200
                        /\ ~resp[1].has_metadata
                        /\ revState = "done"
        /\ revState = "done" =>
              /\ Len(resp) = 1
              /\ resp[1].reviews = revResult
              /\ resp[1].total_reviews = Len(revResult)
        /\ (Responded /\ AllReviewRequestsFailed) =>
              /\ resp[1].reviews = <<>>
              /\ resp[1].total_reviews = 0

\* all four sort-order requests failed and the answer is 200 with no review
C5_Witness ==
    /\ PassedValidation
    /\ ~ReceivedData.include_metadata
    /\ build.handler = "appstore"
    /\ AllReviewRequestsFailed
    /\ Responded
    /\ resp[1].status = 200
    /\ resp[1].reviews = <<>>

\* C6: a validated single-app request with metadata is answered 500
\* exactly when getAppMetadata failed, at once, and 200 with app_metadata
\* and the list getReviews returned exactly when getAppMetadata succeeded
\* and getReviews is done, whatever the review requests did.
C6_RejectsIffMetadataFails ==
    (PassedValidation /\ ReceivedData.include_metadata) =>
        /\ metaState = "failed" => Responded
        /\ (metaState = "ok" /\ revState = "done") => Responded
        /\ Len(resp) <= 1
        /\ Responded =>
              /\ resp[1].status \in {200, 500}
              /\ resp[1].status = 500 <=> metaState = "failed"
              /\ resp[1].status = 200 <=> (metaState = "ok" /\ revState = "done")
              /\ resp[1].status = 200 =>
                    /\ resp[1].has_metadata
                    /\ resp[1].reviews = revResult

\* metadata succeeded, every review request failed, and the answer is 200
\* with app_metadata and an empty review list
C6_Witness ==
    /\ PassedValidation
    /\ ReceivedData.include_metadata
    /\ metaState = "ok"
    /\ AllReviewRequestsFailed
    /\ Responded
    /\ resp[1].status = 200
    /\ resp[1].has_metadata
    /\ resp[1].reviews = <<>>

\* C7: when a request is answered 400, no upstream request has been sent.
C7_ValidationBeforeNetwork ==
    (Responded /\ resp[1].status = 400) =>
        /\ \A r \in UpstreamRequests : issued[r] = 0
        /\ inflight = {}

\* a single-app request with a valid app_id is answered 400 for its limit
C7_Witness ==
    /\ SingleRequest
    /\ Responded
    /\ resp[1].status = 400
    /\ isValidAppId(ReceivedData.app_id.v)
    /\ \A r \in UpstreamRequests : issued[r] = 0

\* the batch request received passed validateMultipleAppsRequest
BatchPassedValidation ==
    /\ BatchRequest
    /\ req.input.t = "object"
    /\ validateMultipleAppsRequest(req.input) = <<>>

\* C8 (the claim as stated): a validated batch request is answered 200,
\* never 500, also when the upstream fails for one of its apps.
C8_BatchIsolation ==
    (BatchPassedValidation /\ Responded) => resp[1].status = 200

NotDigitString(str) == ~(str # <<>> /\ \A i \in DOMAIN str : str[i] \in Digits)
IsInvalidAppIdError(e) == e.msg = "Invalid app_id: "

\* C9: for a batch request whose app_ids has 1 to 20 entries, the 400
\* response lists one 'Invalid app_id' error per entry that is not a
\* non-empty digit string, in order; with an invalid entry the request is
\* answered 400 and nothing is fetched.
C9_BatchAllOrNothing ==
    (/\ BatchRequest
     /\ req.input.t = "object"
     /\ req.input.app_ids.t = "array"
     /\ Len(req.input.app_ids.v) \in 1..MAX_APP_IDS) =>
        LET invalid == SelectSeq(req.input.app_ids.v, NotDigitString)
        IN /\ Responded
           /\ invalid # <<>> =>
                 /\ resp[1].status = 400
                 /\ \A r \in UpstreamRequests : issued[r] = 0
                 /\ inflight = {}
           /\ resp[1].status = 400 =>
                 SelectSeq(resp[1].message, IsInvalidAppIdError)
                    = [i \in DOMAIN invalid |-> Err("Invalid app_id: ", invalid[i])]

\* a batch of a valid entry and two invalid ones is answered 400 with two
\* 'Invalid app_id' errors
C9_Witness ==
    /\ BatchRequest
    /\ req.input.t = "object"
    /\ req.input.app_ids.t = "array"
    /\ Len(req.input.app_ids.v) = 3
    /\ isValidAppId(req.input.app_ids.v[1])
    /\ ~isValidAppId(req.input.app_ids.v[2])
    /\ ~isValidAppId(req.input.app_ids.v[3])
    /\ Responded
    /\ resp[1].status = 400
    /\ Len(SelectSeq(resp[1].message, IsInvalidAppIdError)) = 2

\* C10 (the claim as stated): getReviews of the ASO client returns at most
\* `limit` reviews, so total_reviews never exceeds the effective limit.
C10_ASOAtMostLimit ==
    (build.handler = "aso" /\ revState = "done") =>
        /\ Len(revResult) <= limit
        /\ Responded => resp[1].total_reviews <= limit

(***************************************************************************)
(* Properties of the handling of a single-app request.                     *)
(***************************************************************************)
\* the single-app request received carries a ReviewsRequest
HasData == SingleRequest /\ (req.route = "POST /reviews" => req.input.t = "object")

\* app_id is a non-empty string of decimal digits
AppIdWellFormed(data) ==
    /\ data.app_id.t = "string"
    /\ data.app_id.v # <<>>
    /\ \A i \in DOMAIN data.app_id.v : data.app_id.v[i] \in Digits

\* limit is absent, or an integer in [1, 200] (values are in tenths)
LimitWellFormed(data) ==
    \/ data.limit.t = "undefined"
    \/ /\ data.limit.t = "number"
       /\ \E n \in 1..200 : data.limit.v = n * 10

\* C11 (the claim as stated): validateReviewsRequest returns no error
\* exactly when app_id is a non-empty digit string and limit is absent or
\* an integer in [1, 200]; a single-app request with a limit outside that
\* range is answered 400 and no upstream request is sent.
C11_LimitValidated ==
    HasData =>
        /\ validateReviewsRequest(build.validators, ReceivedData) = <<>>
              <=> (AppIdWellFormed(ReceivedData) /\ LimitWellFormed(ReceivedData))
        /\ ~LimitWellFormed(ReceivedData) =>
              /\ Responded
              /\ resp[1].status = 400
              /\ \A r \in UpstreamRequests : issued[r] = 0

\* a source client was called for the single-app request received
ReachedSourceClient == HasData /\ revState # "idle"

\* C12 (the claim as stated): the limit passed to the source client is an
\* integer in [1, MAX_REVIEWS_PER_APP]; it is min(max(1, floor(n)),
\* MAX_REVIEWS_PER_APP) when the caller supplied the number n, and
\* MAX_REVIEWS_PER_APP when the caller omitted the limit.
C12_LimitClamped ==
    ReachedSourceClient =>
        /\ limit \in 1..MAX_REVIEWS_PER_APP
        /\ ReceivedData.limit.t = "number" =>
              limit = Min(Max(1, ReceivedData.limit.v \div 10), MAX_REVIEWS_PER_APP)
        /\ ReceivedData.limit.t = "undefined" => limit = MAX_REVIEWS_PER_APP

\* what the caller gave for include_metadata: "omitted", "true" or "false"
CallerIncludeMetadata ==
    IF req.route = "GET /reviews"
    THEN (IF req.input.include_metadata.t = "null" THEN "omitted"
          ELSE IF req.input.include_metadata.v = <<"f", "a", "l", "s", "e">>
               THEN "false" ELSE "true")
    ELSE (IF req.input.include_metadata = "undefined" THEN "omitted"
          ELSE req.input.include_metadata)

\* C13 (the claim as stated): for a validated single-app request, GET or
\* POST, that omits include_metadata the metadata is fetched and a 200
\* response contains app_metadata; a 200 response is without app_metadata
\* only when the caller passed false.
C13_MetadataByDefault ==
    PassedValidation =>
        /\ CallerIncludeMetadata = "omitted" =>
              /\ issued["metadata"] = 1
              /\ (Responded /\ resp[1].status = 200) => resp[1].has_metadata
        /\ (Responded /\ resp[1].status = 200 /\ ~resp[1].has_metadata) =>
              CallerIncludeMetadata = "false"

(***************************************************************************)
(* Properties of the responses.                                            *)
(***************************************************************************)
\* C14 (the claim as stated): every response of every route, whatever its
\* status, carries the header Access-Control-Allow-Origin: *.
C14_CorsOnEveryResponse ==
    \A i \in DOMAIN resp : resp[i].cors

\* the request received is bad or missing caller input: a body that is
\* not a JSON object, a missing or non-digit app_id, a limit out of range,
\* an app_ids that is not an array of 1 to 20 digit strings
BadInput ==
    \/ /\ SingleRequest
       /\ \/ ~HasData
          \/ ~AppIdWellFormed(ReceivedData)
          \/ ~LimitWellFormed(ReceivedData)
    \/ /\ BatchRequest
       /\ \/ req.input.t # "object"
          \/ req.input.app_ids.t # "array"
          \/ Len(req.input.app_ids.v) \notin 1..MAX_APP_IDS
          \/ SelectSeq(req.input.app_ids.v, NotDigitString) # <<>>
          \/ ~LimitWellFormed(req.input)

\* C15 (the claim as stated): bad or missing caller input is answered 400
\* with the validation messages, never 500; an unparsable or null POST
\* body included.
C15_BadInputIs400 ==
    BadInput =>
        /\ Len(resp) = 1
        /\ resp[1].status = 400
        /\ resp[1].error = "Validation Error"
        /\ resp[1].message # <<>>

\* C16 (the claim as stated): the error and message fields of a 500
\* response do not depend on the error that caused it.  A failed metadata
\* lookup is answered 500 with the text getAppWithReviews wraps every
\* failure in, so the 500 bodies are all equal exactly when each of them
\* has those two fields.
C16_Generic500 ==
    (SingleRequest \/ BatchRequest) =>
        \A i \in DOMAIN resp :
            resp[i].status = 500 =>
                /\ resp[i].error = "Internal Server Error"
                /\ resp[i].message = <<Err(CombinedErrorMessage, <<>>)>>

(***************************************************************************)
(* Properties of the review identifiers.                                   *)
(***************************************************************************)
\* C17: no two reviews of the list getReviews returned, of either source
\* client, have the same id string.
C17_UniqueReviewIds ==
    revState = "done" =>
        \A i, j \in DOMAIN revResult :
            i # j => IdString(revResult[i].id) # IdString(revResult[j].id)

\* the App Store client returned two reviews of the same sort order, whose
\* ids differ in the counter alone
C17_Witness ==
    /\ AppStoreDone
    /\ Len(revResult) = 2
    /\ revResult[1].id.sortBy = revResult[2].id.sortBy
    /\ IdString(revResult[1].id) # IdString(revResult[2].id)

(***************************************************************************)
(* Properties of the order of the upstream requests.                       *)
(***************************************************************************)
FeedsInFlight == inflight \cap Range(sortOptions)

\* C18 (the claim as stated): the four sort-order requests of a getReviews
\* call are issued without waiting for each other's response, so from the
\* start of the call on all four have been issued.
C18_FeedsConcurrent ==
    (build.handler = "appstore" /\ revState # "idle") =>
        \A i \in DOMAIN sortOptions : issued[sortOptions[i]] = 1

\* C18 (amended): the sort-order requests are issued one after the other
\* in the order of sortOptions: at most one is in flight, a request is
\* issued only when the response of the previous one has been handled,
\* and after a failed request the next one is still issued.
C18_FeedsSequential ==
    build.handler = "appstore" =>
        /\ Cardinality(FeedsInFlight) <= 1
        /\ \A i \in DOMAIN sortOptions :
              /\ issued[sortOptions[i]] <= 1
              /\ (i > 1 /\ issued[sortOptions[i]] = 1) =>
                    got[sortOptions[i - 1]].status # "none"
              /\ (i < Len(sortOptions) /\ got[sortOptions[i]].status = "failed") =>
                    issued[sortOptions[i + 1]] = 1

\* the first sort-order request has failed and the second one, alone, is
\* in flight
C18_Witness ==
    /\ build.handler = "appstore"
    /\ got[sortOptions[1]].status = "failed"
    /\ FeedsInFlight = {sortOptions[2]}
    /\ issued[sortOptions[3]] = 0

\* getAppWithReviews was called for the request received
CombinedCall == PassedValidation /\ ReceivedData.include_metadata

\* the requests of getReviews have all been sent, once each
AllFeedsRequestedOnce ==
    \A i \in DOMAIN sortOptions : issued[sortOptions[i]] = 1

\* C19, in every state: the metadata lookup and the first review request
\* are sent together; once getAppMetadata has failed the 500 is there,
\* whatever getReviews is doing; the review loop is not cancelled (while it
\* is fetching, its current request is in flight).
C19_StartedTogetherNotCancelled ==
    CombinedCall =>
        /\ issued["metadata"] = 1
        /\ issued[FirstReviewRequest] = 1
        /\ metaState = "failed" =>
              /\ Len(resp) = 1
              /\ resp[1].status = 500
        /\ (build.handler = "appstore" /\ revState = "fetching") =>
              FeedsInFlight = {sortOptions[sortIdx]}

\* the handler has answered 500 for a failed metadata lookup while the
\* App Store review loop is still fetching
AnsweredWhileFetching ==
    /\ CombinedCall
    /\ build.handler = "appstore"
    /\ metaState = "failed"
    /\ Len(resp) = 1
    /\ revState = "fetching"

\* C19: in getAppWithReviews both fetches are started together; when
\* getAppMetadata rejects while review requests are outstanding, the
\* handler answers 500 at once, and the review fetching goes on: the
\* remaining sort-order requests are all sent and getReviews finishes,
\* with the one response unchanged.
C19_MetadataRejectionShortCircuits ==
    /\ []C19_StartedTogetherNotCancelled
    /\ AnsweredWhileFetching ~>
          (revState = "done" /\ AllFeedsRequestedOnce /\ Len(resp) = 1)

\* the 500 is answered while the first sort-order request is outstanding
\* and no other has been sent yet
C19_Witness ==
    /\ AnsweredWhileFetching
    /\ resp[1].status = 500
    /\ sortIdx = 1
    /\ issued[sortOptions[2]] = 0

(***************************************************************************)
(* Properties of the life of a request.                                    *)
(***************************************************************************)
\* the terminal states of a request, by the status of its response
TerminalStatus == {200, 400, 500}

\* C20, in every state: a request has at most one response, with the
\* status of a terminal state, and none is sent without a request.
C20_AtMostOneResponse ==
    /\ Len(resp) <= 1
    /\ \A i \in DOMAIN resp : resp[i].status \in TerminalStatus
    /\ req = NoRequest => resp = <<>>

\* C20: every single-app or batch request gets one response, 200, 400 or
\* 500, and never a second one, provided every upstream request is
\* answered, fails or times out in the end.
C20_ExactlyOneResponse ==
    /\ []C20_AtMostOneResponse
    /\ (SingleRequest \/ BatchRequest) ~> (Len(resp) = 1)
    /\ [](Len(resp) = 1 => [](Len(resp) = 1))

\* a single-app request with metadata is answered 200 after the metadata
\* lookup and all four sort-order requests were answered
C20_Witness ==
    /\ CombinedCall
    /\ build.handler = "appstore"
    /\ metaState = "ok"
    /\ revState = "done"
    /\ inflight = {}
    /\ Len(resp) = 1
    /\ resp[1].status = 200

(***************************************************************************)
(* Properties of the deduplication key.                                    *)
(***************************************************************************)
\* the three components of the key of an upstream entry
EntryFingerprint(e) == <<Substring(e.content, PREFIX_LEN), e.author, e.updated>>

\* C21 (the claim as stated): an entry is dropped as a duplicate only if a
\* review with the same content prefix, author and timestamp was inserted
\* before; so when getReviews returns, every entry a succeeded feed served
\* has a kept review with its three components, and entries that differ
\* in a component are both kept.
C21_ThreePartKey ==
    AppStoreDone =>
        \A s \in Range(sortOptions) :
            got[s].status = "ok" =>
                \A i \in DOMAIN got[s].reviews :
                    \E j \in DOMAIN allReviews :
                        Fingerprint(allReviews[j]) = EntryFingerprint(got[s].reviews[i])

====
